---- MODULE Spec2Model ----
(***************************************************************************)
(* Model of ignition/service/lifecycle.py: the lifecycle service           *)
(* (execute_lifecycle), the script file manager (build_tree), the          *)
(* execution monitoring service (monitor_execution, job_handler) and the   *)
(* messaging service (send_lifecycle_execution), together with the driver, *)
(* the job queue and the postal service they call.                         *)
(***************************************************************************)
EXTENDS Bags, FiniteSets, Integers, Naturals, Sequences, TLC

(* ------------------------------ bounds --------------------------------- *)

\* number of execute_lifecycle submissions in one behaviour
MaxSubmissions == 2

\* number of direct build_tree calls in one behaviour
MaxBuilds == 3

\* number of direct monitor_execution calls in one behaviour
MaxMonitorCalls == 1

\* number of deliveries per request id that find the execution unfinished
MaxPolls == 2

\* number of envelopes that direct send_lifecycle_execution calls post in one
\* behaviour
MaxSends == 2

(* --------------------------- values of the code ------------------------ *)

\* Python's None, as an argument or a field value
None == "<None>"

STATUS_NOT_STARTED == "NOT_STARTED"

STATUS_IN_PROGRESS == "IN_PROGRESS"

STATUS_COMPLETE == "COMPLETE"

STATUS_FAILED == "FAILED"

LIFECYCLE_EXECUTION_MONITOR_JOB_TYPE == "LifecycleExecutionMonitoring"

\* topics_configuration.lifecycle_execution_events, fixed at construction
lifecycle_execution_events_topic == "lifecycle_execution_events"

(* ------------------------------ payloads ------------------------------- *)
\* A file's bytes: raw identifies the content, eocd says whether an
\* end-of-central-directory record is found (all that zipfile.is_zipfile looks
\* at), members are the archive's entries in order, each with the outcome of
\* its CRC check on extraction.
EmptyBytes == [raw |-> "", eocd |-> FALSE, members |-> <<>>]

JunkBytes == [raw |-> "junk", eocd |-> FALSE, members |-> <<>>]

ZipABytes == [raw |-> "zipA", eocd |-> TRUE,
              members |-> <<[name |-> "install.sh", crc_ok |-> TRUE]>>]

ZipBBytes == [raw |-> "zipB", eocd |-> TRUE,
              members |-> <<[name |-> "start.sh", crc_ok |-> TRUE]>>]

CorruptZipBytes == [raw |-> "zipCorrupt", eocd |-> TRUE,
                    members |-> <<[name |-> "install.sh", crc_ok |-> TRUE],
                                  [name |-> "broken.sh", crc_ok |-> FALSE],
                                  [name |-> "never.sh", crc_ok |-> TRUE]>>]

\* lifecycle_scripts as submitted: a base64 text (padding_ok FALSE: b64decode
\* raises binascii.Error) carrying bytes
BadB64 == [padding_ok |-> FALSE, data |-> JunkBytes]

NotZip == [padding_ok |-> TRUE, data |-> JunkBytes]

CorruptZip == [padding_ok |-> TRUE, data |-> CorruptZipBytes]

ZipA == [padding_ok |-> TRUE, data |-> ZipABytes]

ZipB == [padding_ok |-> TRUE, data |-> ZipBBytes]

Payloads == {BadB64, NotZip, CorruptZip, ZipA, ZipB}

\* a valid archive: decodable, recognised as a zip, every member intact
ValidArchive(p) ==
    /\ p.padding_ok
    /\ p.data.eocd
    /\ \A i \in 1..Len(p.data.members) : p.data.members[i].crc_ok

MemberNames(bytes) == {bytes.members[i].name : i \in 1..Len(bytes.members)}

(* ----------------------------- file system ----------------------------- *)
\* Tree names are dot-separated texts, kept as the sequence of their parts, so
\* that '{0}.zip'.format(name) is the name with the part "zip" appended.
DirectNames == {<<"a">>, <<"a", "zip">>}

\* str(uuid.uuid4()): the i-th submission draws the i-th name of the pool
UuidPool == <<"u1", "u2", "u3", "u4", "u5", "u6">>

UuidNames == {<<UuidPool[i]>> : i \in 1..MaxSubmissions}

TreeNames == DirectNames \cup UuidNames

determine_package_path(tree_name) == tree_name \o <<"zip">>

determine_extracted_path(tree_name) == tree_name

Paths == {determine_package_path(t) : t \in TreeNames}
            \cup {determine_extracted_path(t) : t \in TreeNames}

Absent == [kind |-> "absent", bytes |-> EmptyBytes, files |-> {}]

File(bytes) == [kind |-> "file", bytes |-> bytes, files |-> {}]

Dir(files) == [kind |-> "dir", bytes |-> EmptyBytes, files |-> files]

exists(f, path) == f[path].kind # "absent"

\* An operation on the workspace gives the file system it leaves and whether
\* it raised.
Done(f) == [fs |-> f, raised |-> FALSE]

Raised(f) == [fs |-> f, raised |-> TRUE]

\* os.remove: raises on a directory
os_remove(f, path) ==
    IF f[path].kind = "file" THEN Done([f EXCEPT ![path] = Absent])
    ELSE Raised(f)

\* shutil.rmtree: raises on a plain file
shutil_rmtree(f, path) ==
    IF f[path].kind = "dir" THEN Done([f EXCEPT ![path] = Absent])
    ELSE Raised(f)

\* __clear_existing_files that removes the package and leaves the extracted
\* directory in place
clear_existing_files_keeps_tree(f, tree_name) ==
    LET package_write_path == determine_package_path(tree_name)
    IN  IF exists(f, package_write_path)
        THEN os_remove(f, package_write_path) ELSE Done(f)

clear_existing_files(f, tree_name) ==
    LET package_write_path == determine_package_path(tree_name)
        extracted_path == determine_extracted_path(tree_name)
        r1 == IF exists(f, package_write_path)
              THEN os_remove(f, package_write_path) ELSE Done(f)
    IN  IF r1.raised THEN r1
        ELSE IF exists(r1.fs, extracted_path)
             THEN shutil_rmtree(r1.fs, extracted_path)
             ELSE r1

\* open(path, 'wb') creates or truncates the file before b64decode runs
write_scripts_to_disk(f, tree_name, lifecycle_scripts) ==
    LET package_write_path == determine_package_path(tree_name)
    IN  IF f[package_write_path].kind = "dir" THEN Raised(f)
        ELSE IF ~lifecycle_scripts.padding_ok
             THEN Raised([f EXCEPT ![package_write_path] = File(EmptyBytes)])
             ELSE Done([f EXCEPT ![package_write_path] =
                                      File(lifecycle_scripts.data)])

is_zipfile(f, path) == f[path].kind = "file" /\ f[path].bytes.eocd

\* ZipFile.extractall: members are written in order under the target
\* directory; a member whose CRC check fails is written and then raises, and
\* the members after it are not extracted.
RECURSIVE extractall(_, _, _, _)
extractall(f, extracted_path, members, i) ==
    IF i > Len(members) THEN Done(f)
    ELSE IF f[extracted_path].kind = "file" THEN Raised(f)
    ELSE LET g == [f EXCEPT ![extracted_path] =
                       Dir(f[extracted_path].files \cup {members[i].name})]
         IN  IF members[i].crc_ok
             THEN extractall(g, extracted_path, members, i + 1)
             ELSE Raised(g)

extract_scripts(f, tree_name, package_path) ==
    IF ~is_zipfile(f, package_path) THEN Raised(f)
    ELSE extractall(f, determine_extracted_path(tree_name),
                    f[package_path].bytes.members, 1)

\* build_tree: the stage it raised in, or "ok"
build_tree(f, tree_name, lifecycle_scripts) ==
    LET c == clear_existing_files(f, tree_name)
        w == write_scripts_to_disk(c.fs, tree_name, lifecycle_scripts)
        x == extract_scripts(w.fs, tree_name, determine_package_path(tree_name))
    IN  IF c.raised THEN [fs |-> c.fs, raised |-> TRUE, stage |-> "clear"]
        ELSE IF w.raised THEN [fs |-> w.fs, raised |-> TRUE, stage |-> "write"]
        ELSE IF x.raised THEN [fs |-> x.fs, raised |-> TRUE, stage |-> "extract"]
        ELSE [fs |-> x.fs, raised |-> FALSE, stage |-> "ok"]

(* ------------------------- monitoring and messaging -------------------- *)
\* the empty string, or the empty dict for a deployment location
Empty == ""

RequestIds == {"r1", "r2"}

NonTerminal == {STATUS_NOT_STARTED, STATUS_IN_PROGRESS}

Terminal == {STATUS_COMPLETE, STATUS_FAILED}

Statuses == NonTerminal \cup Terminal

\* the driver has no execution under this request id
Unknown == "UNKNOWN"

\* __create_job_definition with the two values under each other's key
create_job_definition_swapped(request_id, deployment_location) ==
    [job_type |-> LIFECYCLE_EXECUTION_MONITOR_JOB_TYPE,
     request_id |-> deployment_location,
     deployment_location |-> request_id]

create_job_definition(request_id, deployment_location) ==
    [job_type |-> LIFECYCLE_EXECUTION_MONITOR_JOB_TYPE,
     request_id |-> request_id,
     deployment_location |-> deployment_location]

\* job_queue_service.queue_job: accepts the job, or raises and queues nothing
queue_job(q, job_definition, accepts) ==
    IF accepts THEN [queue |-> q (+) SetToBag({job_definition}), raised |-> FALSE]
    ELSE [queue |-> q, raised |-> TRUE]

\* monitor_execution that queues the job before it looks at the deployment
\* location
monitor_execution_queues_first(q, request_id, deployment_location, accepts) ==
    IF request_id = None THEN [queue |-> q, raised |-> TRUE]
    ELSE LET j == queue_job(q, create_job_definition(request_id,
                                                     deployment_location),
                            accepts)
         IN  IF deployment_location = None
             THEN [queue |-> j.queue, raised |-> TRUE]
             ELSE j

\* monitor_execution that validates and builds the job but never queues it
monitor_execution_forgets_job(q, request_id, deployment_location, accepts) ==
    IF request_id = None THEN [queue |-> q, raised |-> TRUE]
    ELSE IF deployment_location = None THEN [queue |-> q, raised |-> TRUE]
    ELSE [queue |-> q, raised |-> FALSE]

monitor_execution(q, request_id, deployment_location, accepts) ==
    IF request_id = None THEN [queue |-> q, raised |-> TRUE]
    ELSE IF deployment_location = None THEN [queue |-> q, raised |-> TRUE]
    ELSE queue_job(q, create_job_definition(request_id, deployment_location),
                   accepts)

\* a LifecycleExecution as the driver returns it, and None in its place
LifecycleExecution(request_id, status) ==
    [is_none |-> FALSE, request_id |-> request_id, status |-> status]

NoExecution == [is_none |-> TRUE, request_id |-> None, status |-> None]

\* lifecycle_execution_dict + JsonContent + Envelope: what is posted
Envelope(lifecycle_execution) ==
    [topic |-> lifecycle_execution_events_topic,
     request_id |-> lifecycle_execution.request_id,
     status |-> lifecycle_execution.status]

\* send_lifecycle_execution without the test for None
send_lifecycle_execution_unchecked(lifecycle_execution, post_ok) ==
    IF post_ok THEN [posts |-> <<Envelope(lifecycle_execution)>>,
                     raised |-> FALSE]
    ELSE [posts |-> <<>>, raised |-> TRUE]

\* send_lifecycle_execution: the envelopes posted and whether it raised
\* (post_ok FALSE: postal_service.post raises)
send_lifecycle_execution(lifecycle_execution, post_ok) ==
    IF lifecycle_execution.is_none THEN [posts |-> <<>>, raised |-> TRUE]
    ELSE IF post_ok THEN [posts |-> <<Envelope(lifecycle_execution)>>,
                          raised |-> FALSE]
    ELSE [posts |-> <<>>, raised |-> TRUE]

\* job_handler that sends the execution whatever its status
job_handler_sends_unfinished(job_definition, get, post_ok) ==
    IF get.raised \/ get.task.is_none
    THEN [ret |-> "raise", calls |-> <<"get_lifecycle_execution">>,
          posts |-> <<>>]
    ELSE LET s == send_lifecycle_execution(get.task, post_ok)
         IN  [ret |-> IF get.task.status \in {STATUS_COMPLETE, STATUS_FAILED}
                      THEN "true" ELSE "false",
              calls |-> <<"get_lifecycle_execution",
                          "send_lifecycle_execution">>,
              posts |-> s.posts]

\* job_handler that sends on a terminal status and falls through to
\* return False
job_handler_never_done(job_definition, get, post_ok) ==
    IF get.raised \/ get.task.is_none
    THEN [ret |-> "raise", calls |-> <<"get_lifecycle_execution">>,
          posts |-> <<>>]
    ELSE IF get.task.status \in {STATUS_COMPLETE, STATUS_FAILED}
    THEN [ret |-> "false",
          calls |-> <<"get_lifecycle_execution", "send_lifecycle_execution">>,
          posts |-> send_lifecycle_execution(get.task, post_ok).posts]
    ELSE [ret |-> "false", calls |-> <<"get_lifecycle_execution">>,
          posts |-> <<>>]

\* job_handler without the deployment_location check
job_handler_skips_location_check(job_definition, get, post_ok) ==
    IF "request_id" \notin DOMAIN job_definition
         \/ job_definition["request_id"] = None
    THEN [ret |-> "true", calls |-> <<>>, posts |-> <<>>]
    ELSE IF get.raised \/ get.task.is_none
    THEN [ret |-> "raise", calls |-> <<"get_lifecycle_execution">>,
          posts |-> <<>>]
    ELSE IF get.task.status \in {STATUS_COMPLETE, STATUS_FAILED}
    THEN LET s == send_lifecycle_execution(get.task, post_ok)
         IN  [ret |-> IF s.raised THEN "raise" ELSE "true",
              calls |-> <<"get_lifecycle_execution",
                          "send_lifecycle_execution">>,
              posts |-> s.posts]
    ELSE [ret |-> "false", calls |-> <<"get_lifecycle_execution">>,
          posts |-> <<>>]

\* job_handler that catches an error of the driver's status query and reports
\* the job as done
job_handler_swallows_driver_error(job_definition, get, post_ok) ==
    IF "request_id" \notin DOMAIN job_definition
         \/ job_definition["request_id"] = None
    THEN [ret |-> "true", calls |-> <<>>, posts |-> <<>>]
    ELSE IF "deployment_location" \notin DOMAIN job_definition
              \/ job_definition["deployment_location"] = None
    THEN [ret |-> "true", calls |-> <<>>, posts |-> <<>>]
    ELSE IF get.raised \/ get.task.is_none
    THEN [ret |-> "true", calls |-> <<"get_lifecycle_execution">>,
          posts |-> <<>>]
    ELSE IF get.task.status \in {STATUS_COMPLETE, STATUS_FAILED}
    THEN LET s == send_lifecycle_execution(get.task, post_ok)
         IN  [ret |-> IF s.raised THEN "raise" ELSE "true",
              calls |-> <<"get_lifecycle_execution",
                          "send_lifecycle_execution">>,
              posts |-> s.posts]
    ELSE [ret |-> "false", calls |-> <<"get_lifecycle_execution">>,
          posts |-> <<>>]

\* job_handler that reports the job as done although send_lifecycle_execution
\* raised
job_handler_swallows_send_error(job_definition, get, post_ok) ==
    IF "request_id" \notin DOMAIN job_definition
         \/ job_definition["request_id"] = None
    THEN [ret |-> "true", calls |-> <<>>, posts |-> <<>>]
    ELSE IF "deployment_location" \notin DOMAIN job_definition
              \/ job_definition["deployment_location"] = None
    THEN [ret |-> "true", calls |-> <<>>, posts |-> <<>>]
    ELSE IF get.raised \/ get.task.is_none
    THEN [ret |-> "raise", calls |-> <<"get_lifecycle_execution">>,
          posts |-> <<>>]
    ELSE IF get.task.status \in {STATUS_COMPLETE, STATUS_FAILED}
    THEN LET s == send_lifecycle_execution(get.task, post_ok)
         IN  [ret |-> "true",
              calls |-> <<"get_lifecycle_execution",
                          "send_lifecycle_execution">>,
              posts |-> s.posts]
    ELSE [ret |-> "false", calls |-> <<"get_lifecycle_execution">>,
          posts |-> <<>>]

\* job_handler on one delivery. get is the outcome of
\* driver.get_lifecycle_execution for the job: whether it raised, and the task
\* it returned. ret is "true", "false" or "raise"; calls are the collaborator
\* calls made, posts the envelopes posted.
job_handler(job_definition, get, post_ok) ==
    IF "request_id" \notin DOMAIN job_definition
         \/ job_definition["request_id"] = None
    THEN [ret |-> "true", calls |-> <<>>, posts |-> <<>>]
    ELSE IF "deployment_location" \notin DOMAIN job_definition
              \/ job_definition["deployment_location"] = None
    THEN [ret |-> "true", calls |-> <<>>, posts |-> <<>>]
    ELSE IF get.raised \/ get.task.is_none
    THEN [ret |-> "raise", calls |-> <<"get_lifecycle_execution">>,
          posts |-> <<>>]
    ELSE IF get.task.status \in {STATUS_COMPLETE, STATUS_FAILED}
    THEN LET s == send_lifecycle_execution(get.task, post_ok)
         IN  [ret |-> IF s.raised THEN "raise" ELSE "true",
              calls |-> <<"get_lifecycle_execution",
                          "send_lifecycle_execution">>,
              posts |-> s.posts]
    ELSE [ret |-> "false", calls |-> <<"get_lifecycle_execution">>,
          posts |-> <<>>]

(* ------------------------------- driver -------------------------------- *)
\* driver.execute_lifecycle: raises, or accepts and acknowledges with the
\* request id it chose; the execution it accepted starts as NOT_STARTED
driver_execute_lifecycle(st, drv) ==
    IF drv.raised THEN [status |-> st, raised |-> TRUE, request_id |-> None]
    ELSE [status |-> IF drv.request_id \in DOMAIN st
                          /\ st[drv.request_id] = Unknown
                     THEN [st EXCEPT ![drv.request_id] = STATUS_NOT_STARTED]
                     ELSE st,
          raised |-> FALSE, request_id |-> drv.request_id]

\* driver.get_lifecycle_execution: raises when it has no such request
driver_get_lifecycle_execution(st, request_id) ==
    IF request_id \in DOMAIN st /\ st[request_id] # Unknown
    THEN [raised |-> FALSE,
          task |-> LifecycleExecution(request_id, st[request_id])]
    ELSE [raised |-> TRUE, task |-> NoExecution]

(* --------------------------- lifecycle service ------------------------- *)
\* execute_lifecycle that goes on to the driver although build_tree raised
execute_lifecycle_ignores_build(f, st, q, async, file_name, lifecycle_scripts, deployment_location, drv, accepts) ==
    LET b == build_tree(f, file_name, lifecycle_scripts)
        d == driver_execute_lifecycle(st, drv)
        m == monitor_execution(q, d.request_id, deployment_location, accepts)
    IN  IF d.raised
        THEN [fs |-> b.fs, status |-> st, queue |-> q, raised |-> TRUE,
              response |-> None,
              calls |-> <<"build_tree", "driver.execute_lifecycle">>]
        ELSE IF async = TRUE
        THEN [fs |-> b.fs, status |-> d.status, queue |-> m.queue,
              raised |-> m.raised,
              response |-> IF m.raised THEN None ELSE d.request_id,
              calls |-> <<"build_tree", "driver.execute_lifecycle",
                          "monitor_execution">>]
        ELSE [fs |-> b.fs, status |-> d.status, queue |-> q, raised |-> FALSE,
              response |-> d.request_id,
              calls |-> <<"build_tree", "driver.execute_lifecycle">>]

\* execute_lifecycle that removes the bundle it built when the driver raises
execute_lifecycle_cleans_on_failure(f, st, q, async, file_name, lifecycle_scripts, deployment_location, drv, accepts) ==
    LET b == build_tree(f, file_name, lifecycle_scripts)
        d == driver_execute_lifecycle(st, drv)
        m == monitor_execution(q, d.request_id, deployment_location, accepts)
    IN  IF b.raised
        THEN [fs |-> b.fs, status |-> st, queue |-> q, raised |-> TRUE,
              response |-> None, calls |-> <<"build_tree">>]
        ELSE IF d.raised
        THEN [fs |-> clear_existing_files(b.fs, file_name).fs, status |-> st,
              queue |-> q, raised |-> TRUE, response |-> None,
              calls |-> <<"build_tree", "driver.execute_lifecycle">>]
        ELSE IF async = TRUE
        THEN [fs |-> b.fs, status |-> d.status, queue |-> m.queue,
              raised |-> m.raised,
              response |-> IF m.raised THEN None ELSE d.request_id,
              calls |-> <<"build_tree", "driver.execute_lifecycle",
                          "monitor_execution">>]
        ELSE [fs |-> b.fs, status |-> d.status, queue |-> q, raised |-> FALSE,
              response |-> d.request_id,
              calls |-> <<"build_tree", "driver.execute_lifecycle">>]

\* execute_lifecycle that asks the driver for the status before it returns
execute_lifecycle_polls(f, st, q, async, file_name, lifecycle_scripts, deployment_location, drv, accepts) ==
    LET b == build_tree(f, file_name, lifecycle_scripts)
        d == driver_execute_lifecycle(st, drv)
        m == monitor_execution(q, d.request_id, deployment_location, accepts)
    IN  IF b.raised
        THEN [fs |-> b.fs, status |-> st, queue |-> q, raised |-> TRUE,
              response |-> None, calls |-> <<"build_tree">>]
        ELSE IF d.raised
        THEN [fs |-> b.fs, status |-> st, queue |-> q, raised |-> TRUE,
              response |-> None,
              calls |-> <<"build_tree", "driver.execute_lifecycle">>]
        ELSE IF async = TRUE
        THEN [fs |-> b.fs, status |-> d.status, queue |-> m.queue,
              raised |-> m.raised,
              response |-> IF m.raised THEN None ELSE d.request_id,
              calls |-> <<"build_tree", "driver.execute_lifecycle",
                          "monitor_execution">>]
        ELSE [fs |-> b.fs, status |-> d.status, queue |-> q, raised |-> FALSE,
              response |-> d.request_id,
              calls |-> <<"build_tree", "driver.execute_lifecycle",
                          "get_lifecycle_execution">>]

\* execute_lifecycle with the tree name uuid4 drew. drv is what the driver
\* does with the request, accepts whether the job queue takes the job.
execute_lifecycle(f, st, q, async, file_name, lifecycle_scripts, deployment_location, drv, accepts) ==
    LET b == build_tree(f, file_name, lifecycle_scripts)
        d == driver_execute_lifecycle(st, drv)
        m == monitor_execution(q, d.request_id, deployment_location, accepts)
    IN  IF b.raised
        THEN [fs |-> b.fs, status |-> st, queue |-> q, raised |-> TRUE,
              response |-> None, calls |-> <<"build_tree">>]
        ELSE IF d.raised
        THEN [fs |-> b.fs, status |-> st, queue |-> q, raised |-> TRUE,
              response |-> None,
              calls |-> <<"build_tree", "driver.execute_lifecycle">>]
        ELSE IF async = TRUE
        THEN [fs |-> b.fs, status |-> d.status, queue |-> m.queue,
              raised |-> m.raised,
              response |-> IF m.raised THEN None ELSE d.request_id,
              calls |-> <<"build_tree", "driver.execute_lifecycle",
                          "monitor_execution">>]
        ELSE [fs |-> b.fs, status |-> d.status, queue |-> q, raised |-> FALSE,
              response |-> d.request_id,
              calls |-> <<"build_tree", "driver.execute_lifecycle">>]

(* ------------------------------ the state ------------------------------ *)
VARIABLES
    async_enabled,  \* lifecycle_config.async_messaging_enabled, read once
    fs,             \* the scripts workspace: what is at each path
    status,         \* the driver: status of the execution under each id
    queue,          \* the job queue: bag of job definitions to deliver
    published,      \* envelopes posted to the postal service, in order
    acked,          \* bag of the request ids returned to callers
    nsub,           \* execute_lifecycle calls so far
    nbuild,         \* direct build_tree calls so far
    nmon,           \* direct monitor_execution calls so far
    polls,          \* per request id, deliveries that returned false so far
    faults,         \* what has raised in a delivery so far: "driver", "post"
    builds,         \* build_tree calls in progress, step by step
    handlers,       \* job_handler invocations in progress, step by step
    last            \* the call that ran last: arguments, calls made, outcome

vars == <<async_enabled, fs, status, queue, published, acked, nsub, nbuild,
          nmon, polls, faults, builds, handlers, last>>

\* ids a job can carry: the driver's, the empty one, and one the driver
\* never issued
JobIds == RequestIds \cup {Empty, "r0"}

DeploymentLocations == {None, Empty, "dl1"}

NoPayload == [padding_ok |-> FALSE, data |-> EmptyBytes]

NoJob == [job_type |-> None, request_id |-> None, deployment_location |-> None]

\* the two calls that run side by side
Slots == {1, 2}

\* a slot in which no job_handler invocation is running
IdleHandler == [pc |-> "idle", job |-> NoJob,
                lifecycle_execution_task |-> NoExecution]

\* a slot in which no build_tree call has started
IdleBuild == [pc |-> "idle", tree_name |-> <<>>, lifecycle_scripts |-> NoPayload,
              package_path |-> <<>>,
              alone |-> [raised |-> FALSE, package |-> Absent,
                         extracted |-> Absent]]

NoCall == [op |-> "init", raised |-> FALSE, calls |-> <<>>, stage |-> "",
           tree_name |-> <<>>, lifecycle_scripts |-> NoPayload,
           request_id |-> None, deployment_location |-> None,
           driver_raises |-> FALSE, accepted |-> FALSE, response |-> None,
           package_before |-> Absent, extracted_before |-> Absent,
           job |-> NoJob, get_raised |-> FALSE, post_ok |-> TRUE,
           observed |-> None, ret |-> "", posts |-> <<>>, slot |-> 0,
           lifecycle_execution |-> NoExecution]

Init ==
    /\ async_enabled \in BOOLEAN
    /\ fs = [p \in Paths |-> Absent]
    /\ status = [r \in RequestIds |-> Unknown]
    /\ queue = EmptyBag
    /\ published = <<>>
    /\ acked = EmptyBag
    /\ nsub = 0
    /\ nbuild = 0
    /\ nmon = 0
    /\ polls = [r \in RequestIds |-> 0]
    /\ faults = {}
    /\ builds = [i \in Slots |-> IdleBuild]
    /\ handlers = [i \in Slots |-> IdleHandler]
    /\ last = NoCall

(* ------------------------------- actions ------------------------------- *)
\* what the driver can do with an execute_lifecycle request
DriverOutcomes ==
    {[raised |-> TRUE, request_id |-> None]}
        \cup {[raised |-> FALSE, request_id |-> r] : r \in RequestIds \cup {None}}

\* the scripts a submission carries: undecodable, not a zip, a zip with a
\* damaged member, a good zip
SubmittedPayloads == {BadB64, NotZip, CorruptZip, ZipA}

\* LifecycleService.execute_lifecycle
ExecuteLifecycle ==
    /\ nsub < MaxSubmissions
    /\ \E lifecycle_scripts \in SubmittedPayloads,
          deployment_location \in {None, "dl1"},
          drv \in DriverOutcomes, accepts \in BOOLEAN :
         LET file_name == <<UuidPool[nsub + 1]>>
             e == execute_lifecycle(fs, status, queue, async_enabled, file_name,
                                    lifecycle_scripts, deployment_location,
                                    drv, accepts)
         IN  /\ fs' = e.fs
             /\ status' = e.status
             /\ queue' = e.queue
             /\ acked' = IF e.raised THEN acked
                         ELSE acked (+) SetToBag({e.response})
             /\ nsub' = nsub + 1
             /\ last' = [NoCall EXCEPT
                            !.op = "execute_lifecycle",
                            !.raised = e.raised,
                            !.calls = e.calls,
                            !.tree_name = file_name,
                            !.lifecycle_scripts = lifecycle_scripts,
                            !.deployment_location = deployment_location,
                            !.driver_raises = drv.raised,
                            !.accepted = (Len(e.calls) >= 2 /\ ~drv.raised),
                            !.request_id = IF Len(e.calls) >= 2
                                           THEN drv.request_id ELSE None,
                            !.response = e.response]
    /\ UNCHANGED <<handlers, faults, builds, async_enabled, published, nbuild, nmon, polls>>

\* LifecycleScriptFileManagerService.build_tree, called on its own
BuildTree ==
    /\ nbuild < MaxBuilds
    /\ \E tree_name \in DirectNames, lifecycle_scripts \in Payloads :
         LET b == build_tree(fs, tree_name, lifecycle_scripts)
         IN  /\ fs' = b.fs
             /\ last' = [NoCall EXCEPT
                            !.op = "build_tree",
                            !.raised = b.raised,
                            !.stage = b.stage,
                            !.package_before =
                                fs[determine_package_path(tree_name)],
                            !.extracted_before =
                                fs[determine_extracted_path(tree_name)],
                            !.tree_name = tree_name,
                            !.lifecycle_scripts = lifecycle_scripts]
    /\ nbuild' = nbuild + 1
    /\ UNCHANGED <<handlers, faults, builds, async_enabled, status, queue, published, acked, nsub, nmon,
                   polls>>

\* LifecycleExecutionMonitoringService.monitor_execution, called on its own
MonitorExecution ==
    /\ nmon < MaxMonitorCalls
    /\ \E request_id \in {None, Empty, "r0"},
          deployment_location \in DeploymentLocations, accepts \in BOOLEAN :
         LET m == monitor_execution(queue, request_id, deployment_location,
                                    accepts)
         IN  /\ queue' = m.queue
             /\ last' = [NoCall EXCEPT
                            !.op = "monitor_execution",
                            !.raised = m.raised,
                            !.request_id = request_id,
                            !.deployment_location = deployment_location,
                            !.accepted = accepts]
    /\ nmon' = nmon + 1
    /\ UNCHANGED <<handlers, faults, builds, async_enabled, fs, status, published, acked, nsub, nbuild,
                   polls>>

\* The job queue delivers job to job_handler; the driver answers the status
\* query and the postal service takes the post. The job is retired when the
\* handler returns true and stays queued when it returns false.
DeliverJob(job) ==
    /\ BagIn(job, queue)
    /\ LET get == driver_get_lifecycle_execution(status, job["request_id"])
           h == job_handler(job, get, TRUE)
           r == job["request_id"]
       IN  /\ ~get.raised
           /\ h.ret = "false" => polls[r] < MaxPolls
           /\ polls' = IF h.ret = "false"
                       THEN [polls EXCEPT ![r] = polls[r] + 1] ELSE polls
           /\ published' = published \o h.posts
           /\ queue' = IF h.ret = "true" THEN queue (-) SetToBag({job})
                       ELSE queue
           /\ last' = [NoCall EXCEPT
                          !.op = "job_handler",
                          !.raised = (h.ret = "raise"),
                          !.calls = h.calls,
                          !.job = job,
                          !.request_id = job["request_id"],
                          !.deployment_location = job["deployment_location"],
                          !.observed = get.task.status,
                          !.ret = h.ret,
                          !.posts = h.posts]
    /\ UNCHANGED <<handlers, faults, builds, async_enabled, fs, status, acked, nsub, nbuild, nmon>>

\* the jobs monitor_execution can register
Jobs == {create_job_definition(r, d) : r \in JobIds, d \in {Empty, "dl1"}}

Deliver == \E job \in Jobs : DeliverJob(job)

Rank(s) == CASE s = STATUS_NOT_STARTED -> 0
             [] s = STATUS_IN_PROGRESS -> 1
             [] OTHER -> 2

\* The execution under request id r moves forward at the driver; a terminal
\* status is final.
DriverProgressOf(r) ==
    /\ \E s \in Statuses :
         /\ status[r] \in NonTerminal
         /\ Rank(s) > Rank(status[r])
         /\ status' = [status EXCEPT ![r] = s]
         /\ last' = [NoCall EXCEPT !.op = "driver_progress", !.request_id = r,
                                   !.observed = s]
    /\ UNCHANGED <<handlers, faults, builds, async_enabled, fs, queue, published, acked, nsub, nbuild,
                   nmon, polls>>

DriverProgress == \E r \in RequestIds : DriverProgressOf(r)

\* job_handler's two checks of the job definition
WellFormed(job_definition) ==
    /\ "request_id" \in DOMAIN job_definition
    /\ job_definition["request_id"] # None
    /\ "deployment_location" \in DOMAIN job_definition
    /\ job_definition["deployment_location"] # None

\* the request id a job definition carries, None when it carries none
RequestIdOf(job_definition) ==
    IF "request_id" \in DOMAIN job_definition
    THEN job_definition["request_id"] ELSE None

DeploymentLocationOf(job_definition) ==
    IF "deployment_location" \in DOMAIN job_definition
    THEN job_definition["deployment_location"] ELSE None

\* job definitions of the monitoring job type that monitor_execution would
\* not have built: a key is missing or its value is None
MalformedJobs ==
    {[job_type |-> LIFECYCLE_EXECUTION_MONITOR_JOB_TYPE,
      deployment_location |-> "dl1"],
     [job_type |-> LIFECYCLE_EXECUTION_MONITOR_JOB_TYPE,
      request_id |-> None, deployment_location |-> "dl1"],
     [job_type |-> LIFECYCLE_EXECUTION_MONITOR_JOB_TYPE,
      request_id |-> "r1"],
     [job_type |-> LIFECYCLE_EXECUTION_MONITOR_JOB_TYPE,
      request_id |-> "r1", deployment_location |-> None]}

\* Another producer puts a malformed job of the monitoring type on the queue
\* (one at a time).
QueueMalformedJob ==
    /\ \A j \in BagToSet(queue) : j \notin MalformedJobs
    /\ \E job \in MalformedJobs :
         /\ queue' = queue (+) SetToBag({job})
         /\ last' = [NoCall EXCEPT !.op = "queue_job", !.job = job]
    /\ UNCHANGED <<handlers, faults, builds, async_enabled, fs, status, published, acked,
                   nsub, nbuild, nmon, polls>>

\* A delivery in which the driver raises on the status query if driver_raises
\* and the postal service takes the post if post_ok. The queue retires the job
\* when the handler returns true and keeps it for redelivery when it returns
\* false or raises.
DeliverJobWith(job, driver_raises, post_ok) ==
    /\ BagIn(job, queue)
    /\   LET r == RequestIdOf(job)
             get == IF driver_raises \/ ~WellFormed(job)
                    THEN [raised |-> TRUE, task |-> NoExecution]
                    ELSE driver_get_lifecycle_execution(status, r)
             h == job_handler(job, get, post_ok)
             asked == h.calls # <<>>
         IN  /\ h.ret = "false" => polls[r] < MaxPolls
             /\ polls' = IF h.ret = "false"
                         THEN [polls EXCEPT ![r] = polls[r] + 1] ELSE polls
             /\ faults' = IF h.ret = "raise"
                          THEN faults \cup
                                 {IF get.raised THEN "driver" ELSE "post"}
                          ELSE faults
             /\ published' = published \o h.posts
             /\ queue' = IF h.ret = "true" THEN queue (-) SetToBag({job})
                         ELSE queue
             /\ last' = [NoCall EXCEPT
                            !.op = "job_handler",
                            !.raised = (h.ret = "raise"),
                            !.calls = h.calls,
                            !.job = job,
                            !.request_id = r,
                            !.deployment_location = DeploymentLocationOf(job),
                            !.get_raised = (asked /\ get.raised),
                            !.post_ok = (Len(h.calls) = 2 => post_ok),
                            !.observed = IF asked THEN get.task.status
                                         ELSE None,
                            !.ret = h.ret,
                            !.posts = h.posts]
    /\ UNCHANGED <<handlers, builds, async_enabled, fs, status, acked, nsub, nbuild, nmon>>

\* a delivery of a registered job with a driver and a postal service that
\* can raise
DeliverFaulty ==
    \E job \in Jobs, driver_raises \in BOOLEAN, post_ok \in BOOLEAN :
        DeliverJobWith(job, driver_raises, post_ok)

\* a delivery of a malformed job
DeliverMalformed == \E job \in MalformedJobs : DeliverJobWith(job, FALSE, TRUE)

\* the local variable lifecycle_execution_task of invocation i, read as if it
\* were a field that all invocations share with the first one
lifecycle_execution_task_shared(hs, i) == hs[1].lifecycle_execution_task

\* the local variable lifecycle_execution_task of invocation i
lifecycle_execution_task(hs, i) == hs[i].lifecycle_execution_task

\* job_handler invocation i up to its status test: it takes a queued job whose
\* request id no running invocation is handling, asks the driver, and either
\* returns false on an unfinished status or goes on, holding the task, towards
\* send_lifecycle_execution.
HandlerQuery(i) ==
    /\ handlers[i].pc = "idle"
    /\ \E job \in Jobs :
         LET r == job["request_id"]
             get == driver_get_lifecycle_execution(status, r)
         IN  /\ BagIn(job, queue)
             /\ \A k \in Slots \ {i} :
                    handlers[k].pc = "idle" \/ handlers[k].job["request_id"] # r
             /\ ~get.raised
             /\ IF get.task.status \in {STATUS_COMPLETE, STATUS_FAILED}
                THEN /\ handlers' = [handlers EXCEPT ![i] =
                                       [pc |-> "queried", job |-> job,
                                        lifecycle_execution_task |-> get.task]]
                     /\ polls' = polls
                     /\ last' = [NoCall EXCEPT
                                    !.op = "get_lifecycle_execution",
                                    !.calls = <<"get_lifecycle_execution">>,
                                    !.job = job,
                                    !.request_id = r,
                                    !.deployment_location =
                                        job["deployment_location"],
                                    !.observed = get.task.status,
                                    !.slot = i]
                ELSE /\ polls[r] < MaxPolls
                     /\ handlers' = handlers
                     /\ polls' = [polls EXCEPT ![r] = polls[r] + 1]
                     /\ last' = [NoCall EXCEPT
                                    !.op = "job_handler",
                                    !.calls = <<"get_lifecycle_execution">>,
                                    !.job = job,
                                    !.request_id = r,
                                    !.deployment_location =
                                        job["deployment_location"],
                                    !.observed = get.task.status,
                                    !.ret = "false",
                                    !.slot = i]
    /\ UNCHANGED <<faults, builds, async_enabled, fs, status, queue, published, acked, nsub, nbuild, nmon>>

\* job_handler invocation i from send_lifecycle_execution to its return
HandlerSend(i) ==
    /\ handlers[i].pc = "queried"
    /\ LET job == handlers[i].job
           task == lifecycle_execution_task(handlers, i)
           s == send_lifecycle_execution(task, TRUE)
       IN  /\ published' = published \o s.posts
           /\ queue' = IF s.raised THEN queue ELSE queue (-) SetToBag({job})
           /\ handlers' = [handlers EXCEPT ![i] = IdleHandler]
           /\ last' = [NoCall EXCEPT
                          !.op = "job_handler",
                          !.raised = s.raised,
                          !.calls = <<"get_lifecycle_execution",
                                      "send_lifecycle_execution">>,
                          !.job = job,
                          !.request_id = job["request_id"],
                          !.deployment_location = job["deployment_location"],
                          !.observed = task.status,
                          !.ret = IF s.raised THEN "raise" ELSE "true",
                          !.posts = s.posts,
                          !.slot = i]
    /\ UNCHANGED <<faults, builds, async_enabled, fs, status, acked, nsub, nbuild, nmon, polls>>

\* the service with two job_handler invocations running side by side
NextHandlers ==
    \/ ExecuteLifecycle
    \/ \E i \in Slots : HandlerQuery(i)
    \/ \E i \in Slots : HandlerSend(i)
    \/ DriverProgress

SpecHandlers == Init /\ [][NextHandlers]_vars

\* the tree names two side-by-side builds take: the direct ones and one that
\* execute_lifecycle generated
BuildNames == DirectNames \cup {<<UuidPool[1]>>}

\* what build_tree leaves for its own tree name when it runs alone on
\* workspace f
BuildAlone(f, tree_name, lifecycle_scripts) ==
    LET b == build_tree(f, tree_name, lifecycle_scripts)
    IN  [raised |-> b.raised,
         package |-> b.fs[determine_package_path(tree_name)],
         extracted |-> b.fs[determine_extracted_path(tree_name)]]

\* the build steps still to come in slot i
BuildRunning(i) == builds[i].pc \in {"start", "cleared", "written", "validated"}

\* what a build step records
BuildStep(i, op, raised) ==
    [NoCall EXCEPT !.op = op, !.raised = raised, !.slot = i,
                   !.tree_name = builds[i].tree_name,
                   !.lifecycle_scripts = builds[i].lifecycle_scripts]

\* two build_tree calls with different tree names are made on the workspace
\* as it stands
StartBuilds ==
    /\ nbuild + 2 <= MaxBuilds
    /\ \A i \in Slots : ~BuildRunning(i)
    /\ \E t1 \in BuildNames, t2 \in BuildNames, p1 \in Payloads, p2 \in Payloads :
         /\ t1 # t2
         /\ builds' = [i \in Slots |->
                         LET t == IF i = 1 THEN t1 ELSE t2
                             p == IF i = 1 THEN p1 ELSE p2
                         IN  [pc |-> "start", tree_name |-> t,
                              lifecycle_scripts |-> p,
                              package_path |-> <<>>,
                              alone |-> BuildAlone(fs, t, p)]]
    /\ nbuild' = nbuild + 2
    /\ last' = [NoCall EXCEPT !.op = "build_tree"]
    /\ UNCHANGED <<handlers, faults, async_enabled, fs, status, queue, published, acked, nsub, nmon, polls>>

\* build_tree in slot i: __clear_existing_files
StepClear(i) ==
    /\ builds[i].pc = "start"
    /\ LET c == clear_existing_files(fs, builds[i].tree_name)
       IN  /\ fs' = c.fs
           /\ builds' = [builds EXCEPT ![i].pc =
                           IF c.raised THEN "raised" ELSE "cleared"]
           /\ last' = BuildStep(i, "clear", c.raised)
    /\ UNCHANGED <<handlers, faults, async_enabled, status, queue, published, acked, nsub, nbuild, nmon, polls>>

\* build_tree in slot i: __write_scripts_to_disk
StepWrite(i) ==
    /\ builds[i].pc = "cleared"
    /\ LET w == write_scripts_to_disk(fs, builds[i].tree_name,
                                      builds[i].lifecycle_scripts)
       IN  /\ fs' = w.fs
           /\ builds' = [builds EXCEPT
                           ![i].pc = IF w.raised THEN "raised" ELSE "written",
                           ![i].package_path =
                               determine_package_path(builds[i].tree_name)]
           /\ last' = BuildStep(i, "write", w.raised)
    /\ UNCHANGED <<handlers, faults, async_enabled, status, queue, published, acked, nsub, nbuild, nmon, polls>>

\* build_tree in slot i: the is_zipfile test of __extract_scripts
StepValidate(i) ==
    /\ builds[i].pc = "written"
    /\ LET ok == is_zipfile(fs, builds[i].package_path)
       IN  /\ builds' = [builds EXCEPT ![i].pc =
                           IF ok THEN "validated" ELSE "raised"]
           /\ last' = BuildStep(i, "validate", ~ok)
    /\ UNCHANGED <<handlers, faults, async_enabled, fs, status, queue, published, acked, nsub, nbuild, nmon, polls>>

\* build_tree in slot i: ZipFile(package_path).extractall(extracted_path);
\* opening the archive raises when it is no longer a zip file
StepExtract(i) ==
    /\ builds[i].pc = "validated"
    /\ LET x == extract_scripts(fs, builds[i].tree_name, builds[i].package_path)
       IN  /\ fs' = x.fs
           /\ builds' = [builds EXCEPT ![i].pc =
                           IF x.raised THEN "raised" ELSE "done"]
           /\ last' = BuildStep(i, "extract", x.raised)
    /\ UNCHANGED <<handlers, faults, async_enabled, status, queue, published, acked, nsub, nbuild, nmon, polls>>

\* two build_tree calls running side by side, step by step
NextBuilds ==
    \/ StartBuilds
    \/ \E i \in Slots : StepClear(i)
    \/ \E i \in Slots : StepWrite(i)
    \/ \E i \in Slots : StepValidate(i)
    \/ \E i \in Slots : StepExtract(i)

SpecBuilds == Init /\ [][NextBuilds]_vars

\* the records a caller can hand to send_lifecycle_execution
LifecycleExecutions ==
    {NoExecution} \cup {LifecycleExecution(r, s) : r \in RequestIds, s \in Statuses}

\* LifecycleMessagingService.send_lifecycle_execution, called on its own
SendLifecycleExecution ==
    /\ Len(published) < MaxSends
    /\ \E lifecycle_execution \in LifecycleExecutions, post_ok \in BOOLEAN :
         LET s == send_lifecycle_execution(lifecycle_execution, post_ok)
         IN  /\ published' = published \o s.posts
             /\ last' = [NoCall EXCEPT
                            !.op = "send_lifecycle_execution",
                            !.raised = s.raised,
                            !.lifecycle_execution = lifecycle_execution,
                            !.post_ok = post_ok,
                            !.posts = s.posts]
    /\ UNCHANGED <<handlers, faults, builds, async_enabled, fs, status, queue, acked, nsub, nbuild, nmon, polls>>

\* the messaging service called on its own
NextSend == SendLifecycleExecution

SpecSend == Init /\ [][NextSend]_vars

\* the service as wired: submissions, deliveries of their jobs, the driver
Next ==
    \/ ExecuteLifecycle
    \/ Deliver
    \/ DriverProgress

Spec == Init /\ [][Next]_vars

\* The same service with a job queue that keeps delivering every job it holds
\* and a driver under which every execution goes on to a terminal status.
FairSpec ==
    /\ Init
    /\ [][Next]_vars
    /\ \A job \in Jobs : WF_vars(DeliverJob(job))
    /\ \A r \in RequestIds : WF_vars(DriverProgressOf(r))

\* the service with a driver and a postal service that can raise during a
\* delivery
NextFaults ==
    \/ ExecuteLifecycle
    \/ DeliverFaulty
    \/ DriverProgress

SpecFaults == Init /\ [][NextFaults]_vars

\* the service with malformed jobs arriving on its queue
NextMalformed ==
    \/ ExecuteLifecycle
    \/ QueueMalformedJob
    \/ Deliver
    \/ DeliverMalformed
    \/ DriverProgress

SpecMalformed == Init /\ [][NextMalformed]_vars

\* the script file manager and the monitoring service called on their own
NextDirect ==
    \/ BuildTree
    \/ MonitorExecution

SpecDirect == Init /\ [][NextDirect]_vars

TypeOK ==
    /\ async_enabled \in BOOLEAN
    /\ \A p \in Paths : fs[p].kind \in {"absent", "file", "dir"}
    /\ \A r \in RequestIds : status[r] \in Statuses \cup {Unknown}
    /\ nsub \in 0..MaxSubmissions
    /\ nbuild \in 0..MaxBuilds
    /\ nmon \in 0..MaxMonitorCalls
    /\ \A r \in RequestIds : polls[r] \in 0..MaxPolls

(* ------------------------------ properties ----------------------------- *)
\* the step that just ran is a delivery to job_handler
Delivered == last'.op = "job_handler"

\* envelopes posted for request id r
PublishedFor(r) ==
    Cardinality({i \in 1..Len(published) : published[i].request_id = r})

\* jobs queued for request id r
QueuedFor(r) ==
    LET js == {j \in BagToSet(queue) : RequestIdOf(j) = r}
    IN  IF js = {} THEN 0 ELSE BagCardinality([j \in js |-> queue[j]])

\* C1: in every delivery of a well-formed monitor job, send_lifecycle_execution
\* is called if and only if the status the driver returned in that delivery is
\* COMPLETE or FAILED; a delivery that observes NOT_STARTED or IN_PROGRESS
\* posts nothing.
C1_PublishIffTerminal ==
    [][Delivered =>
         /\ ("send_lifecycle_execution" \in
                {last'.calls[i] : i \in 1..Len(last'.calls)})
              <=> (last'.observed \in Terminal)
         /\ last'.observed \in Terminal => Len(published') = Len(published) + 1
         /\ last'.observed \in NonTerminal => published' = published]_vars

C1_Witness ==
    /\ last.op = "job_handler"
    /\ last.observed = STATUS_FAILED
    /\ last.calls = <<"get_lifecycle_execution", "send_lifecycle_execution">>
    /\ published # <<>>
    /\ \E r \in RequestIds : polls[r] > 0

\* C2: with a queue that redelivers on false and retires on true, job_handler
\* returns false on every delivery that finds the execution unfinished and
\* leaves the job queued and nothing posted; at the delivery that finds it
\* COMPLETE or FAILED it returns true, posts exactly one envelope carrying that
\* status, and the job leaves the queue, so it is not delivered again: the
\* envelopes posted for a request id and the jobs still queued for it add up
\* to the jobs registered for it.
C2_Step ==
    Delivered =>
      LET j == last'.job
      IN  /\ last'.observed \in NonTerminal =>
                /\ last'.ret = "false"
                /\ published' = published
                /\ queue' = queue
          /\ last'.observed \in Terminal =>
                /\ last'.ret = "true"
                /\ published' = Append(published,
                       [topic |-> lifecycle_execution_events_topic,
                        request_id |-> j["request_id"],
                        status |-> last'.observed])
                /\ CopiesIn(j, queue') = CopiesIn(j, queue) - 1
                /\ \A k \in BagToSet(queue) \ {j} :
                       CopiesIn(k, queue') = CopiesIn(k, queue)

C2_Accounting ==
    \A r \in RequestIds :
        PublishedFor(r) + QueuedFor(r)
            = IF async_enabled THEN CopiesIn(r, acked) ELSE 0

C2_PollUntilTerminal == [][C2_Step]_vars /\ []C2_Accounting

\* IN_PROGRESS, IN_PROGRESS, COMPLETE gave false, false, true and one envelope
C2_Witness ==
    /\ last.op = "job_handler"
    /\ last.ret = "true"
    /\ last.observed = STATUS_COMPLETE
    /\ polls[last.request_id] = 2
    /\ PublishedFor(last.request_id) = 1
    /\ published[Len(published)].status = STATUS_COMPLETE
    /\ QueuedFor(last.request_id) = 0

\* C3 as stated: every acknowledged submission is eventually followed by
\* exactly one terminal envelope for its request id.
C3_AsStated ==
    \A r \in RequestIds : (CopiesIn(r, acked) > 0) ~> (PublishedFor(r) = 1)

\* C3, amended: with async_messaging_enabled true, every acknowledged
\* submission is eventually followed by a terminal envelope for its request
\* id, one envelope per acknowledged submission carrying that id and never
\* more; with async_messaging_enabled false nothing is ever posted.
C3_EventuallyPublished ==
    /\ \A r \in RequestIds : \A n \in 1..MaxSubmissions :
          (async_enabled /\ CopiesIn(r, acked) >= n) ~> (PublishedFor(r) >= n)
    /\ [](\A r \in RequestIds : PublishedFor(r) <= CopiesIn(r, acked))
    /\ [](\A i \in 1..Len(published) : published[i].status \in Terminal)
    /\ [](~async_enabled => published = <<>>)

C3_Witness ==
    /\ async_enabled
    /\ \E r \in RequestIds :
          /\ CopiesIn(r, acked) = 1
          /\ PublishedFor(r) = 1
          /\ QueuedFor(r) = 0
          /\ status[r] \in Terminal

\* the step that just ran is a call of execute_lifecycle
Submitted == last'.op = "execute_lifecycle"

\* C4: whenever execute_lifecycle raises, at the bundle build, at the driver or
\* at the monitor registration after the driver accepted, the caller gets no
\* request id and the job queue holds no job it did not hold before the call.
C4_FailedSubmission ==
    [][(Submitted /\ last'.raised) =>
          /\ last'.response = None
          /\ acked' = acked
          /\ queue' = queue]_vars

\* the registration failed after the driver had accepted the request
C4_Witness ==
    /\ last.op = "execute_lifecycle"
    /\ last.raised
    /\ last.accepted
    /\ last.request_id \in RequestIds
    /\ last.calls[3] = "monitor_execution"
    /\ status[last.request_id] # Unknown

\* C5: execute_lifecycle calls build_tree, then driver.execute_lifecycle, then
\* monitor_execution, each only if the one before succeeded: when build_tree
\* raises the driver is not called and no job is registered; when the driver
\* raises no job is registered.
C5_Step ==
    Submitted =>
      LET b == build_tree(fs, last'.tree_name, last'.lifecycle_scripts)
      IN  /\ b.raised =>
                /\ last'.calls = <<"build_tree">>
                /\ last'.raised
                /\ status' = status
                /\ queue' = queue
          /\ (~b.raised /\ last'.driver_raises) =>
                /\ last'.calls = <<"build_tree", "driver.execute_lifecycle">>
                /\ last'.raised
                /\ status' = status
                /\ queue' = queue
          /\ (~b.raised /\ ~last'.driver_raises) =>
                last'.calls = IF async_enabled
                              THEN <<"build_tree", "driver.execute_lifecycle",
                                     "monitor_execution">>
                              ELSE <<"build_tree", "driver.execute_lifecycle">>
          /\ last'.lifecycle_scripts \in {BadB64, NotZip} => b.raised

C5_StepOrder == [][C5_Step]_vars

\* invalid base64: no driver call although the driver would have accepted
C5_Witness ==
    /\ last.op = "execute_lifecycle"
    /\ last.lifecycle_scripts = BadB64
    /\ ~last.driver_raises
    /\ last.calls = <<"build_tree">>
    /\ last.raised
    /\ queue = EmptyBag
    /\ \A r \in RequestIds : status[r] = Unknown

\* C6: a successful execute_lifecycle returns the driver's ack unchanged; with
\* async_messaging_enabled true it queues exactly one job, of type
\* LifecycleExecutionMonitoring, carrying the ack's request id and the
\* submitted deployment location; with it false it queues nothing.
C6_AckAndJob ==
    [][(Submitted /\ ~last'.raised) =>
          /\ last'.accepted
          /\ last'.response = last'.request_id
          /\ acked' = acked (+) SetToBag({last'.request_id})
          /\ queue' = IF async_enabled
                      THEN queue (+) SetToBag({
                              [job_type |-> "LifecycleExecutionMonitoring",
                               request_id |-> last'.request_id,
                               deployment_location |->
                                   last'.deployment_location]})
                      ELSE queue]_vars

C6_Witness ==
    /\ async_enabled
    /\ last.op = "execute_lifecycle"
    /\ ~last.raised
    /\ last.response = "r1"
    /\ CopiesIn([job_type |-> "LifecycleExecutionMonitoring",
                 request_id |-> "r1", deployment_location |-> "dl1"],
                queue) = 1

\* the archive file and the extracted directory of the tree built last
PackageOf(tree_name) == fs[determine_package_path(tree_name)]

ExtractedOf(tree_name) == fs[determine_extracted_path(tree_name)]

\* C7: build_tree(T, A) followed by build_tree(T, A') for valid archives leaves
\* exactly A' as the archive file of T and exactly the members of A' in the
\* directory of T: every build_tree of a valid archive that finds, at the two
\* paths of T, what an earlier build of T can have left (a file or nothing at
\* the package path, a directory or nothing at the tree path) succeeds, and
\* afterwards the file holds the decoded payload and the directory holds its
\* members and nothing else.
C7_RebuildLeavesNoResidue ==
    (last.op = "build_tree" /\ ValidArchive(last.lifecycle_scripts)
        /\ last.package_before.kind # "dir"
        /\ last.extracted_before.kind # "file") =>
      /\ ~last.raised
      /\ PackageOf(last.tree_name) = File(last.lifecycle_scripts.data)
      /\ ExtractedOf(last.tree_name)
            = Dir(MemberNames(last.lifecycle_scripts.data))

\* ZipA was built under the name, then ZipB under the same name
C7_Witness ==
    /\ last.op = "build_tree"
    /\ ~last.raised
    /\ last.lifecycle_scripts = ZipB
    /\ last.package_before = File(ZipABytes)
    /\ last.extracted_before = Dir({"install.sh"})
    /\ ExtractedOf(last.tree_name) = Dir({"start.sh"})

\* C8 as stated: for every payload that is not a valid archive build_tree
\* raises, and afterwards the tree name has no extracted directory, whatever
\* was on disk for it before.
C8_NoTreeAfterInvalid ==
    (last.op = "build_tree" /\ ~ValidArchive(last.lifecycle_scripts)) =>
      /\ last.raised
      /\ ExtractedOf(last.tree_name).kind # "dir"

\* C9 as stated: once build_tree has raised on an undecodable payload or on
\* one that is not a well-formed archive, no archive file for the tree name is
\* left in the workspace.
C9_NoArchiveAfterInvalid ==
    (last.op = "build_tree" /\ last.raised
        /\ last.stage \in {"write", "extract"}) =>
      PackageOf(last.tree_name).kind = "absent"

\* the step that just ran is a call of monitor_execution
Registered == last'.op = "monitor_execution"

\* C10 as stated: monitor_execution raises and queues nothing whenever either
\* argument is absent or empty, and queues a job only when both are present
\* and not empty.
C10_RejectsAbsentOrEmpty ==
    [][Registered =>
         /\ (last'.request_id \in {None, Empty}
               \/ last'.deployment_location \in {None, Empty}) =>
                (last'.raised /\ queue' = queue)
         /\ queue' # queue =>
                (last'.request_id \notin {None, Empty}
                   /\ last'.deployment_location \notin {None, Empty})]_vars

\* ---------------------------------------------------------------------------
\* C11: a delivery of a job whose request_id or deployment_location is missing
\* or None returns true, makes no call to the driver and publishes nothing,
\* and the queue retires the job, so it is not delivered again.
C11_Step ==
    (Delivered /\ ~WellFormed(last'.job)) =>
      /\ last'.ret = "true"
      /\ last'.calls = <<>>
      /\ last'.posts = <<>>
      /\ published' = published
      /\ queue' = queue (-) SetToBag({last'.job})
      /\ ~BagIn(last'.job, queue')

C11_MalformedJobRetired == [][C11_Step]_vars

\* a job that names a request the driver has finished, but no deployment
\* location, has been delivered and retired
C11_Witness ==
    /\ last.op = "job_handler"
    /\ ~WellFormed(last.job)
    /\ last.request_id = "r1"
    /\ status["r1"] \in Terminal
    /\ last.ret = "true"
    /\ ~BagIn(last.job, queue)

\* ---------------------------------------------------------------------------
\* C12: when the driver's get_lifecycle_execution raises during a delivery,
\* job_handler raises too: it does not return true, it publishes nothing, and
\* the job stays on the queue for a later delivery.
C12_Step ==
    (Delivered /\ last'.get_raised) =>
      /\ last'.ret = "raise"
      /\ last'.raised
      /\ last'.calls = <<"get_lifecycle_execution">>
      /\ last'.posts = <<>>
      /\ published' = published
      /\ queue' = queue
      /\ BagIn(last'.job, queue')

C12_DriverErrorPropagates == [][C12_Step]_vars

\* the only job ever registered is for r1; the driver raised on a delivery of
\* it, and a later delivery saw the terminal status and published it
C12_Witness ==
    /\ "driver" \in faults
    /\ acked = SetToBag({"r1"})
    /\ last.op = "job_handler"
    /\ last.ret = "true"
    /\ last.request_id = "r1"
    /\ last.observed \in Terminal
    /\ PublishedFor("r1") = 1

HandlerStep == last'.op \in {"job_handler", "get_lifecycle_execution"}

\* C14: job_handler keeps no state between invocations. With two invocations
\* for different request ids interleaved step by step, a step of one
\* invocation leaves the other's local state, queued jobs, poll count and
\* published events alone; each invocation returns and posts what job_handler
\* run alone against the driver returns and posts; and a delivery that
\* observes an unfinished status publishes nothing, queues nothing and leaves
\* nothing behind.
C14_Step ==
    /\ \A i \in Slots : handlers'[i] # handlers[i] => last'.slot = i
    /\ HandlerStep =>
         LET r == last'.request_id
             alone == job_handler(last'.job,
                                  driver_get_lifecycle_execution(status, r),
                                  TRUE)
         IN  /\ status' = status /\ fs' = fs /\ acked' = acked
             /\ \A r2 \in RequestIds \ {r} :
                    /\ PublishedFor(r2)' = PublishedFor(r2)
                    /\ QueuedFor(r2)' = QueuedFor(r2)
                    /\ polls'[r2] = polls[r2]
             /\ last'.op = "job_handler" =>
                    /\ last'.ret = alone.ret
                    /\ last'.posts = alone.posts
                    /\ handlers'[last'.slot] = IdleHandler
             /\ last'.op = "get_lifecycle_execution" =>
                    /\ alone.ret = "true"
                    /\ published' = published
                    /\ queue' = queue
             /\ last'.ret = "false" =>
                    /\ published' = published
                    /\ queue' = queue
                    /\ handlers' = handlers

C14_StatelessHandler == [][C14_Step]_vars

\* the second invocation polled its request while unfinished and has now
\* published it, all while the first invocation is between its status query
\* and its send for another request
C14_Witness ==
    /\ last.op = "job_handler"
    /\ last.ret = "true"
    /\ last.slot = 2
    /\ polls[last.request_id] > 0
    /\ handlers[1].pc = "queried"
    /\ handlers[1].job["request_id"] # last.request_id
    /\ PublishedFor(last.request_id) = 1
    /\ PublishedFor(handlers[1].job["request_id"]) = 0

\* ---------------------------------------------------------------------------
\* C15 as stated: with the steps of two build_tree calls for different tree
\* names interleaved, a call that has ended has raised or not as it does when
\* run alone, and the archive file and extracted tree of its name are the ones
\* it leaves when run alone, whatever the other call has done since.
C15_BuildsDoNotInterfere ==
    \A i \in Slots :
        builds[i].pc \in {"done", "raised"} =>
          /\ (builds[i].pc = "raised") = builds[i].alone.raised
          /\ PackageOf(builds[i].tree_name) = builds[i].alone.package
          /\ ExtractedOf(builds[i].tree_name) = builds[i].alone.extracted

\* ---------------------------------------------------------------------------
\* the step that just ran is a call of send_lifecycle_execution
Sent == last'.op = "send_lifecycle_execution"

\* C16: send_lifecycle_execution(None) raises and posts nothing; for a record
\* that is present it posts exactly one message, to the one configured topic,
\* carrying that record (and raises with nothing delivered when the postal
\* service raises).
C16_Step ==
    Sent =>
      LET lifecycle_execution == last'.lifecycle_execution
      IN  /\ lifecycle_execution.is_none =>
                (last'.raised /\ published' = published)
          /\ (~lifecycle_execution.is_none /\ last'.post_ok) =>
                /\ ~last'.raised
                /\ published' =
                     Append(published,
                            [topic |-> lifecycle_execution_events_topic,
                             request_id |-> lifecycle_execution.request_id,
                             status |-> lifecycle_execution.status])
          /\ (~lifecycle_execution.is_none /\ ~last'.post_ok) =>
                (last'.raised /\ published' = published)
          /\ \A k \in 1..Len(published') :
                published'[k].topic = lifecycle_execution_events_topic

C16_SendPostsOne == [][C16_Step]_vars

\* one record has been sent and posted as one message, and a later call with
\* None has raised and added nothing
C16_Witness ==
    /\ last.op = "send_lifecycle_execution"
    /\ last.lifecycle_execution.is_none
    /\ last.raised
    /\ Len(published) = 1
    /\ published[1].topic = lifecycle_execution_events_topic
    /\ published[1].status = STATUS_COMPLETE

\* ---------------------------------------------------------------------------
\* the bundle of tree name t is on disk: its archive file and its extracted
\* tree
BundleOnDisk(t) == PackageOf(t).kind = "file" /\ ExtractedOf(t).kind = "dir"

\* C17: the service never removes a bundle. When build_tree has succeeded in
\* an execute_lifecycle call, the archive and the extracted tree are on disk
\* when the call returns or raises (the driver raising or the registration
\* failing included), and every later step (submission, delivery, publish)
\* leaves the archive and tree of every bundle on disk as they are.
C17_Step ==
    /\ \A t \in UuidNames :
         BundleOnDisk(t) =>
           /\ fs'[determine_package_path(t)] = fs[determine_package_path(t)]
           /\ fs'[determine_extracted_path(t)] = fs[determine_extracted_path(t)]
    /\ (Submitted /\ Len(last'.calls) >= 2) =>
         /\ fs'[determine_package_path(last'.tree_name)] =
              File(last'.lifecycle_scripts.data)
         /\ fs'[determine_extracted_path(last'.tree_name)] =
              Dir(MemberNames(last'.lifecycle_scripts.data))

C17_BundleStays == [][C17_Step]_vars

\* two submissions built their bundles, one of them raised after the build,
\* the other was acknowledged, polled and published: both bundles are on disk
C17_Witness ==
    /\ nsub = 2
    /\ BagCardinality(acked) = 1
    /\ last.op = "job_handler"
    /\ last.ret = "true"
    /\ Len(published) = 1
    /\ \A t \in {<<"u1">>, <<"u2">>} :
         /\ PackageOf(t) = File(ZipABytes)
         /\ ExtractedOf(t) = Dir({"install.sh"})

\* ---------------------------------------------------------------------------
\* C18: a well-formed job is retired (job_handler returns true) only after
\* send_lifecycle_execution has returned without error, its one envelope
\* posted; when send_lifecycle_execution raises on a terminal status the
\* handler raises too, nothing is published and the job stays on the queue.
C18_Step ==
    (Delivered /\ WellFormed(last'.job)) =>
      /\ last'.ret = "true" =>
           /\ last'.calls = <<"get_lifecycle_execution",
                              "send_lifecycle_execution">>
           /\ last'.post_ok
           /\ published' =
                Append(published,
                       Envelope(LifecycleExecution(last'.request_id,
                                                   last'.observed)))
      /\ (last'.observed \in Terminal /\ ~last'.post_ok) =>
           /\ last'.ret = "raise"
           /\ published' = published
           /\ queue' = queue
           /\ BagIn(last'.job, queue')
      /\ queue' # queue => last'.ret = "true"

C18_RetiredOnlyAfterPublish == [][C18_Step]_vars

\* the only job ever registered is for r1; a send for it raised, and a later
\* delivery published the event and retired the job
C18_Witness ==
    /\ "post" \in faults
    /\ acked = SetToBag({"r1"})
    /\ last.op = "job_handler"
    /\ last.ret = "true"
    /\ last.request_id = "r1"
    /\ PublishedFor("r1") = 1
    /\ QueuedFor("r1") = 0

\* ---------------------------------------------------------------------------
\* the call named op is among the calls a step made
Called(op, calls) == \E k \in 1..Len(calls) : calls[k] = op

\* C19: execute_lifecycle never waits for the execution. It makes no
\* get_lifecycle_execution call and does not move any execution forward: the
\* only change of status it causes is the driver's registration of the new
\* request as NOT_STARTED, and it returns the ack in that state. The status is
\* asked for only by deliveries of a job that was on the queue before.
C19_Step ==
    /\ Submitted =>
         /\ ~Called("get_lifecycle_execution", last'.calls)
         /\ \A r \in RequestIds :
                status'[r] # status[r] =>
                  /\ status[r] = Unknown
                  /\ status'[r] = STATUS_NOT_STARTED
                  /\ last'.request_id = r
         /\ ~last'.raised =>
                /\ last'.response = last'.request_id
                /\ last'.response \in RequestIds => status'[last'.response] # Unknown
    /\ Called("get_lifecycle_execution", last'.calls) =>
         /\ Delivered
         /\ BagIn(last'.job, queue)

C19_NeverWaits == [][C19_Step]_vars

\* the ack for r1 has been returned while the execution is NOT_STARTED; its
\* job is queued, not yet delivered, and nothing is published
C19_Witness ==
    /\ last.op = "execute_lifecycle"
    /\ ~last.raised
    /\ last.response = "r1"
    /\ status["r1"] = STATUS_NOT_STARTED
    /\ QueuedFor("r1") = 1
    /\ polls["r1"] = 0
    /\ published = <<>>

====
